---- MODULE Spec2Model ----
(***************************************************************************)
(* A state-machine model of src/build.rs: the build pipeline of bootimage. *)
(* build_impl builds the kernel, encodes the kernel info block, optionally *)
(* deletes the bootloader lock file, acquires and builds the bootloader in *)
(* a temporary directory, extracts its .bootloader section and assembles   *)
(* the disk image.                                                         *)
(*                                                                         *)
(* A u64 is modelled as four 16-bit limbs, least significant first, so     *)
(* that sizes of 2^32 and more keep their width. File contents are byte    *)
(* sequences; a kernel file is given by its size and a seed that fixes     *)
(* every byte, so a kernel too large to enumerate still has a content.     *)
(* Writes to an already opened file are taken to succeed.                  *)
(***************************************************************************)
EXTENDS Integers, Sequences, FiniteSets, TLC

\* ------------------------------------------------------------ constants

BLOCK_SIZE == 512

BUFFER_SIZE == 1024

\* Base of the limbs a u64 is held in.
LIMB == 256 * 256

\* ---------------------------------------------------------------- bounds

\* Interrupted reads counted per run of the copy loop.
MaxInterrupts == 1

\* Short (partial) reads per run of the copy loop.
MaxShortReads == 2

\* A short read returns at most this many bytes, or all but at most this
\* many of the bytes a full read would return.
MaxShortLen == 2

\* Size of the kernel that does not fit one read buffer.
BigKernel == 1030

\* ------------------------------------------------------- pure functions

Min(a, b) == IF a <= b THEN a ELSE b

Zeros(n) == [j \in 1..n |-> 0]

\* u64 from a natural below 2^31.
U64(n) == <<n % LIMB, n \div LIMB, 0, 0>>

\* u64::from(u32::max_value())
U32_MAX == <<LIMB - 1, LIMB - 1, 0, 0>>

\* a <= b on u64
U64Leq(a, b) ==
    \/ a[4] < b[4]
    \/ a[4] = b[4] /\ a[3] < b[3]
    \/ a[4] = b[4] /\ a[3] = b[3] /\ a[2] < b[2]
    \/ a[4] = b[4] /\ a[3] = b[3] /\ a[2] = b[2] /\ a[1] <= b[1]

\* `v as u32`: the low 32 bits, as two limbs.
AsU32(v) == <<v[1], v[2]>>

\* Whether a u64 is small enough to be used as a sequence length here.
IsSmall(v) == v[3] = 0 /\ v[4] = 0 /\ v[2] < 16384

ToNat(v) == v[1] + LIMB * v[2]

\* kernel_size % 512 on a u64 (512 divides 2^16).
U64Mod512(v) == v[1] % 512

\* Variant: the bytes most significant first.
write_u32_be(w) ==
    <<w[2] \div 256, w[2] % 256, w[1] \div 256, w[1] % 256>>

\* LittleEndian::write_u32: the four bytes of a u32, least significant first.
write_u32(w) ==
    <<w[1] % 256, w[1] \div 256, w[2] % 256, w[2] \div 256>>

\* Variant: the size cast to u32 without the range test.
truncating_kernel_info_block(kernel_size) ==
    [panic |-> FALSE,
     block |-> write_u32(AsU32(kernel_size)) \o Zeros(BLOCK_SIZE - 4)]

\* create_kernel_info_block: the 512-byte block, or a panic.
create_kernel_info_block(kernel_size) ==
    IF U64Leq(kernel_size, U32_MAX)
    THEN [panic |-> FALSE,
          block |-> write_u32(AsU32(kernel_size)) \o Zeros(BLOCK_SIZE - 4)]
    ELSE [panic |-> TRUE, block |-> <<>>]

\* Byte i (from 0) of the kernel file k; never zero.
KernelByte(k, i) == ((k.seed + i) % 251) + 1

\* The n bytes of kernel file k from offset pos.
KernelBytes(k, pos, n) == [j \in 1..n |-> KernelByte(k, pos + j - 1)]

\* Bytes a read of kernel file k at offset pos can return at most.
Avail(k, pos) ==
    IF IsSmall(k.size)
    THEN Min(BUFFER_SIZE, ToNat(k.size) - pos)
    ELSE BUFFER_SIZE

\* padding_size of create_disk_image
\* Variant: the padding without the outer % 512.
padding_size_unreduced(kernel_size) == 512 - U64Mod512(kernel_size)

padding_size(kernel_size) == (512 - U64Mod512(kernel_size)) % 512

\* Variant: set_len without the length test.
set_len_always(file, len, min) ==
    IF min <= len THEN SubSeq(file, 1, min) ELSE file \o Zeros(min - len)

\* The min-size rule of create_disk_image: File::set_len when the file is
\* shorter than min_size. set_len truncates or extends with zeros.
enforce_min_size(file, len, min) ==
    IF len < min
    THEN (IF min <= len THEN SubSeq(file, 1, min) ELSE file \o Zeros(min - len))
    ELSE file

\* ------------------------------------------------------------- files

NoFile == [exists |-> FALSE, data |-> <<>>]

FileOf(bytes) == [exists |-> TRUE, data |-> bytes]

\* The image a previous build left at config.output.
OldImage == FileOf(<<9, 9, 9>>)

NoKernel == [exists |-> FALSE, size |-> U64(0), seed |-> 0]

KernelOf(size, seed) == [exists |-> TRUE, size |-> size, seed |-> seed]

\* An executable as xmas_elf sees it: whether it passes ElfFile::new and
\* sanity_check, and its sections by name.
NoElf == [exists |-> FALSE, valid |-> FALSE, sections |-> <<>>]

ElfOf(valid, sections) ==
    [exists |-> TRUE, valid |-> valid, sections |-> sections]

SectionBytes(n) == [j \in 1..n |-> 160 + (j % 7)]

\* The name build_bootloader looks up.
SECTION_NAME == ".bootloader"

\* ElfFile::find_section_by_name followed by raw_data.
find_section_by_name(elf, name) ==
    IF name \in DOMAIN elf.sections
    THEN [found |-> TRUE, raw_data |-> elf.sections[name]]
    ELSE [found |-> FALSE, raw_data |-> <<>>]

\* Variant: a missing section taken as an empty one.
section_or_empty(elf) ==
    IF ~elf.valid
    THEN [panic |-> TRUE, section |-> <<>>]
    ELSE [panic |-> FALSE,
          section |-> find_section_by_name(elf, SECTION_NAME).raw_data]

\* Lines 312-318 of build_bootloader: unwrap the parse and the sanity
\* check, expect the section, return its bytes.
extract_section(elf) ==
    IF ~elf.valid \/ ~find_section_by_name(elf, SECTION_NAME).found
    THEN [panic |-> TRUE, section |-> <<>>]
    ELSE [panic |-> FALSE,
          section |-> find_section_by_name(elf, SECTION_NAME).raw_data]

\* ------------------------------------------------------------- inputs

KernelFiles ==
    { KernelOf(U64(n), 3) : n \in {0, 1, 300, 512, 1024, BigKernel} }
    \cup { KernelOf(<<0, 0, 1, 0>>, 3), KernelOf(<<1, 0, 1, 0>>, 3),
           KernelOf(<<LIMB - 1, LIMB - 1, LIMB - 1, LIMB - 1>>, 3) }
    \cup { NoKernel }

BootloaderFiles ==
    { ElfOf(TRUE, (".bootloader" :> SectionBytes(8)) @@ (".text" :> <<1, 2>>)),
      ElfOf(TRUE, (".bootloader" :> SectionBytes(512))),
      ElfOf(TRUE, (".text" :> <<1, 2>>)),
      ElfOf(FALSE, <<>>),
      NoElf }

NoMinSize == [some |-> FALSE, value |-> 0]

MinSizes == { NoMinSize } \cup { [some |-> TRUE, value |-> v] : v \in {0, 1024, 2048} }

Configs ==
    [update_bootloader : BOOLEAN, precompiled : BOOLEAN,
     minimum_image_size : MinSizes]

\* -------------------------------------------------------------- state

VARIABLES
    config,               \* args.update_bootloader() and the Config fields
    kernel_file,          \* the file xargo leaves at out_dir/crate_name
    bootloader_file,      \* the bootloader executable at bootloader_elf_path
    cargo_lock,           \* whether out_dir/bootloader/Cargo.lock exists
    tmp_dir,              \* "none", "exists" or "removed"
    image,                \* the file at config.output
    kernel_elf,           \* outdir/kernel.elf
    bootloader_elf,       \* outdir/bootloader.elf
    pc,                   \* position in build_impl, or how the run ended
    log,                  \* the stages completed so far, in order
    kernel_pos,           \* cursor of the open kernel File
    kernel_size,          \* kernel.metadata()?.len(), <<>> before it is read
    kernel_info_block,    \* <<>> before it is computed
    bootloader_elf_bytes, \* the bootloader executable read into memory
    bootloader,            \* the section build_bootloader returned
    kernel_status,        \* outcome of the kernel's xargo build
    fetch_status,         \* outcome of download_bootloader
    bootloader_status,    \* outcome of the bootloader's xargo build
    interrupts,           \* Interrupted reads seen by the copy loop
    short_reads           \* short reads seen by the copy loop

vars ==
    <<config, kernel_file, bootloader_file, cargo_lock, tmp_dir, image,
      kernel_elf, bootloader_elf, pc, log, kernel_pos, kernel_size,
      kernel_info_block, bootloader_elf_bytes, bootloader, kernel_status,
      fetch_status, bootloader_status, interrupts, short_reads>>

inputs == <<config, kernel_file, bootloader_file>>

diag_files == <<kernel_elf, bootloader_elf>>

statuses == <<kernel_status, fetch_status, bootloader_status>>

loop_counts == <<interrupts, short_reads>>

Terminal == {"done", "err", "panic", "exit"}

InitWith(kernels, configs, bootloaders) ==
    /\ config \in configs
    /\ kernel_file \in kernels
    /\ bootloader_file \in bootloaders
    /\ cargo_lock \in BOOLEAN
    /\ tmp_dir = "none"
    /\ image \in {NoFile, OldImage}
    /\ kernel_elf = NoKernel
    /\ bootloader_elf = NoElf
    /\ pc = "build_kernel"
    /\ log = <<>>
    /\ kernel_pos = 0
    /\ kernel_size = <<>>
    /\ kernel_info_block = <<>>
    /\ bootloader_elf_bytes = NoElf
    /\ bootloader = <<>>
    /\ kernel_status = "unset"
    /\ fetch_status = "unset"
    /\ bootloader_status = "unset"
    /\ interrupts = 0
    /\ short_reads = 0

Init == InitWith(KernelFiles, Configs, BootloaderFiles)

\* ---------------------------------------------------- ending the run

\* What becomes of the TempDir of build_impl when the run ends in `how`:
\* a returned Err and an unwinding panic drop it, which removes the
\* directory; process::exit runs no destructor.
drop_tmp_dir(how, dir) ==
    IF how \in {"err", "panic"} /\ dir = "exists" THEN "removed" ELSE dir

End(how) ==
    /\ pc' = how
    /\ tmp_dir' = drop_tmp_dir(how, tmp_dir)

\* Variant: the exit status is not looked at.
after_xargo_ignoring_status(status, next) ==
    IF status = "spawn_error" THEN "err" ELSE next

\* The caller of run_xargo_build: `?` on the io::Result, then
\* process::exit(1) unless the exit status is success.
after_xargo(status, next) ==
    CASE status = "spawn_error" -> "err"
      [] status = "failure" -> "exit"
      [] OTHER -> next

\* Variant: neither the assert nor the expect.
after_fetch_unchecked(status, next) ==
    IF status = "io_error" THEN "err" ELSE next

\* download_bootloader: `?` on the I/O, the assert on cargo fetch's exit
\* status, the expect on the crate being among the packages.
after_fetch(status, next) ==
    CASE status = "io_error" -> "err"
      [] status \in {"fetch_failed", "not_found"} -> "panic"
      [] OTHER -> next

\* outdir(config): canonicalize needs config.output to exist.
outdir_ok == image.exists

\* ------------------------------------------------------------ actions

\* build_kernel, lines 114-138.
BuildKernel ==
    /\ pc = "build_kernel"
    /\ \E status \in {"spawn_error", "failure", "success"} :
         LET next == after_xargo(status, "open_kernel") IN
         /\ kernel_status' = status
         /\ IF next = "open_kernel"
            THEN IF kernel_file.exists
                 THEN /\ pc' = "info_block"
                      /\ log' = Append(log, "build_kernel")
                      /\ UNCHANGED tmp_dir
                 ELSE End("err") /\ UNCHANGED log
            ELSE End(next) /\ UNCHANGED log
    /\ UNCHANGED <<inputs, cargo_lock, image, diag_files, kernel_pos,
                   kernel_size, kernel_info_block, bootloader_elf_bytes,
                   bootloader, fetch_status, bootloader_status, loop_counts>>

\* build_impl, lines 71-72.
KernelInfo ==
    /\ pc = "info_block"
    /\ kernel_size' = kernel_file.size
    /\ LET r == create_kernel_info_block(kernel_file.size) IN
         IF r.panic
         THEN End("panic") /\ UNCHANGED <<kernel_info_block, log>>
         ELSE /\ kernel_info_block' = r.block
              /\ pc' = "update_bootloader"
              /\ log' = Append(log, "info_block")
              /\ UNCHANGED tmp_dir
    /\ UNCHANGED <<inputs, cargo_lock, image, diag_files, kernel_pos,
                   bootloader_elf_bytes, bootloader, statuses, loop_counts>>

\* build_impl, lines 74-80: fs::remove_file fails on a missing file.
UpdateBootloader ==
    /\ pc = "update_bootloader"
    /\ IF config.update_bootloader
       THEN IF cargo_lock
            THEN /\ cargo_lock' = FALSE
                 /\ log' = Append(log, "remove_lock")
                 /\ pc' = "tmp_dir"
                 /\ UNCHANGED tmp_dir
            ELSE End("err") /\ UNCHANGED <<cargo_lock, log>>
       ELSE /\ pc' = "tmp_dir"
            /\ UNCHANGED <<cargo_lock, log, tmp_dir>>
    /\ UNCHANGED <<inputs, image, diag_files, kernel_pos, kernel_size,
                   kernel_info_block, bootloader_elf_bytes, bootloader,
                   statuses, loop_counts>>

\* build_impl, line 82.
CreateTmpDir ==
    /\ pc = "tmp_dir"
    /\ \E ok \in BOOLEAN :
         IF ok
         THEN /\ tmp_dir' = "exists"
              /\ pc' = "download"
              /\ log' = Append(log, "tmp_dir")
         ELSE End("err") /\ UNCHANGED log
    /\ UNCHANGED <<inputs, cargo_lock, image, diag_files, kernel_pos,
                   kernel_size, kernel_info_block, bootloader_elf_bytes,
                   bootloader, statuses, loop_counts>>

\* download_bootloader, lines 161-260, called at line 265.
DownloadBootloader ==
    /\ pc = "download"
    /\ \E status \in {"io_error", "fetch_failed", "not_found", "success"} :
         LET next == after_fetch(status, "bootloader_build") IN
         /\ fetch_status' = status
         /\ IF next = "bootloader_build"
            THEN /\ pc' = next
                 /\ log' = Append(log, "download_bootloader")
                 /\ UNCHANGED tmp_dir
            ELSE End(next) /\ UNCHANGED log
    /\ UNCHANGED <<inputs, cargo_lock, image, diag_files, kernel_pos,
                   kernel_size, kernel_info_block, bootloader_elf_bytes,
                   bootloader, kernel_status, bootloader_status, loop_counts>>

\* build_bootloader, lines 270-295.
CompileBootloader ==
    /\ pc = "bootloader_build"
    /\ IF ~config.precompiled
       THEN \E status \in {"spawn_error", "failure", "success"} :
              LET next == after_xargo(status, "read_bootloader") IN
              /\ bootloader_status' = status
              /\ IF next = "read_bootloader"
                 THEN /\ pc' = next
                      /\ log' = Append(log, "xargo_bootloader")
                      /\ UNCHANGED tmp_dir
                 ELSE End(next) /\ UNCHANGED log
       ELSE /\ pc' = "read_bootloader"
            /\ UNCHANGED <<bootloader_status, log, tmp_dir>>
    /\ UNCHANGED <<inputs, cargo_lock, image, diag_files, kernel_pos,
                   kernel_size, kernel_info_block, bootloader_elf_bytes,
                   bootloader, kernel_status, fetch_status, loop_counts>>

\* build_bootloader, lines 297-307.
ReadBootloader ==
    /\ pc = "read_bootloader"
    /\ IF bootloader_file.exists
       THEN /\ bootloader_elf_bytes' = bootloader_file
            /\ pc' = "archive_bootloader"
            /\ log' = Append(log, "read_bootloader")
            /\ UNCHANGED tmp_dir
       ELSE End("err") /\ UNCHANGED <<bootloader_elf_bytes, log>>
    /\ UNCHANGED <<inputs, cargo_lock, image, diag_files, kernel_pos,
                   kernel_size, kernel_info_block, bootloader, statuses,
                   loop_counts>>

\* build_bootloader, line 309.
ArchiveBootloader ==
    /\ pc = "archive_bootloader"
    /\ IF outdir_ok
       THEN /\ bootloader_elf' = bootloader_elf_bytes
            /\ pc' = "extract_section"
            /\ log' = Append(log, "archive_bootloader")
            /\ UNCHANGED tmp_dir
       ELSE End("panic") /\ UNCHANGED <<bootloader_elf, log>>
    /\ UNCHANGED <<inputs, cargo_lock, image, kernel_elf, kernel_pos,
                   kernel_size, kernel_info_block, bootloader_elf_bytes,
                   bootloader, statuses, loop_counts>>

\* build_bootloader, lines 312-318.
ExtractSection ==
    /\ pc = "extract_section"
    /\ LET r == extract_section(bootloader_elf_bytes) IN
         IF r.panic
         THEN End("panic") /\ UNCHANGED <<bootloader, log>>
         ELSE /\ bootloader' = r.section
              /\ pc' = "close_tmp"
              /\ log' = Append(log, "extract_section")
              /\ UNCHANGED tmp_dir
    /\ UNCHANGED <<inputs, cargo_lock, image, diag_files, kernel_pos,
                   kernel_size, kernel_info_block, bootloader_elf_bytes,
                   statuses, loop_counts>>

\* build_impl, line 84: TempDir::close removes the directory.
CloseTmpDir ==
    /\ pc = "close_tmp"
    /\ tmp_dir' = "removed"
    /\ pc' = "kernel_copy"
    /\ log' = Append(log, "close_tmp")
    /\ UNCHANGED <<inputs, cargo_lock, image, diag_files, kernel_pos,
                   kernel_size, kernel_info_block, bootloader_elf_bytes,
                   bootloader, statuses, loop_counts>>

\* --------------------------------------------------- create_disk_image

\* Variant: the cursor is left where io::copy put it.
no_seek(end) == end

\* kernel.seek(SeekFrom::Start(0)) after io::copy left the cursor at `end`.
seek_start(end) == 0

\* Cursor of a kernel file read to its end.
EndOf(k) == IF IsSmall(k.size) THEN ToNat(k.size) ELSE 0

\* create_disk_image, lines 336-339: the kernel.elf copy, then the seek.
KernelCopy ==
    /\ pc = "kernel_copy"
    /\ IF outdir_ok
       THEN \E ok \in BOOLEAN :
              IF ok
              THEN /\ kernel_elf' = kernel_file
                   /\ kernel_pos' = seek_start(EndOf(kernel_file))
                   /\ pc' = "open_output"
                   /\ log' = Append(log, "kernel_copy")
                   /\ UNCHANGED tmp_dir
              ELSE End("err") /\ UNCHANGED <<kernel_elf, kernel_pos, log>>
       ELSE End("panic") /\ UNCHANGED <<kernel_elf, kernel_pos, log>>
    /\ UNCHANGED <<inputs, cargo_lock, image, bootloader_elf, kernel_size,
                   kernel_info_block, bootloader_elf_bytes, bootloader,
                   statuses, loop_counts>>

\* create_disk_image, lines 341-346: File::create truncates the output,
\* then the section, the info block and the kernel's metadata.
OpenOutput ==
    /\ pc = "open_output"
    /\ \E ok \in BOOLEAN :
         IF ok
         THEN /\ image' = FileOf(bootloader \o kernel_info_block)
              /\ kernel_size' = kernel_file.size
              /\ pc' = "copy"
              /\ log' = Append(log, "open_output")
              /\ UNCHANGED tmp_dir
         ELSE End("err") /\ UNCHANGED <<image, kernel_size, log>>
    /\ UNCHANGED <<inputs, cargo_lock, diag_files, kernel_pos,
                   kernel_info_block, bootloader_elf_bytes, bootloader,
                   statuses, loop_counts>>

\* The lengths a read may return when `avail` bytes could be returned.
ReadLens(avail) ==
    { n \in 1..avail :
        \/ n = avail
        \/ /\ short_reads < MaxShortReads
           /\ (n <= MaxShortLen \/ n >= avail - MaxShortLen) }

\* Variant: the whole buffer is written after a first read of n bytes.
whole_buffer(k, pos, n) == KernelBytes(k, pos, n) \o Zeros(BUFFER_SIZE - n)

\* &buffer[..n] after a read of n bytes at offset pos.
buffer_slice(k, pos, n) == KernelBytes(k, pos, n)

\* Lines 349-357 with Ok(n), n > 0: the n bytes read are written.
CopyRead ==
    /\ pc = "copy"
    /\ \E n \in ReadLens(Avail(kernel_file, kernel_pos)) :
         /\ image' = FileOf(image.data
                            \o buffer_slice(kernel_file, kernel_pos, n))
         /\ kernel_pos' = kernel_pos + n
         /\ short_reads' = IF n < Avail(kernel_file, kernel_pos)
                           THEN short_reads + 1 ELSE short_reads
    /\ UNCHANGED <<inputs, cargo_lock, tmp_dir, diag_files, pc, log,
                   kernel_size, kernel_info_block, bootloader_elf_bytes,
                   bootloader, statuses, interrupts>>

\* Variant: an Interrupted read leaves the loop.
interrupted_breaks == "padding"

\* Where the loop goes after Err(Interrupted): (0, true), nothing written,
\* the next iteration.
interrupted_next == "copy"

\* Lines 352 and 355: an Interrupted read.
CopyInterrupted ==
    /\ pc = "copy"
    /\ interrupts < MaxInterrupts
    /\ interrupts' = interrupts + 1
    /\ pc' = interrupted_next
    /\ UNCHANGED <<inputs, cargo_lock, tmp_dir, image, diag_files, log,
                   kernel_pos, kernel_size, kernel_info_block,
                   bootloader_elf_bytes, bootloader, statuses, short_reads>>

\* Line 353: any other read error is returned.
CopyReadError ==
    /\ pc = "copy"
    /\ End("err")
    /\ UNCHANGED <<inputs, cargo_lock, image, diag_files, log, kernel_pos,
                   kernel_size, kernel_info_block, bootloader_elf_bytes,
                   bootloader, statuses, loop_counts>>

\* Line 350: Ok(0) at the end of the file.
CopyEof ==
    /\ pc = "copy"
    /\ Avail(kernel_file, kernel_pos) = 0
    /\ pc' = "padding"
    /\ log' = Append(log, "copy")
    /\ UNCHANGED <<inputs, cargo_lock, tmp_dir, image, diag_files,
                   kernel_pos, kernel_size, kernel_info_block,
                   bootloader_elf_bytes, bootloader, statuses, loop_counts>>

\* Lines 360-362.
WritePadding ==
    /\ pc = "padding"
    /\ image' = FileOf(image.data \o Zeros(padding_size(kernel_size)))
    /\ pc' = "min_size"
    /\ log' = Append(log, "padding")
    /\ UNCHANGED <<inputs, cargo_lock, tmp_dir, diag_files, kernel_pos,
                   kernel_size, kernel_info_block, bootloader_elf_bytes,
                   bootloader, statuses, loop_counts>>

\* Lines 364-372.
EnforceMinSize ==
    /\ pc = "min_size"
    /\ image' = IF config.minimum_image_size.some
                THEN FileOf(enforce_min_size(image.data, Len(image.data),
                                config.minimum_image_size.value))
                ELSE image
    /\ pc' = "done"
    /\ log' = Append(log, "min_size")
    /\ UNCHANGED <<inputs, cargo_lock, tmp_dir, diag_files, kernel_pos,
                   kernel_size, kernel_info_block, bootloader_elf_bytes,
                   bootloader, statuses, loop_counts>>

\* ------------------------------------------------------ specification

Next ==
    \/ BuildKernel
    \/ KernelInfo
    \/ UpdateBootloader
    \/ CreateTmpDir
    \/ DownloadBootloader
    \/ CompileBootloader
    \/ ReadBootloader
    \/ ArchiveBootloader
    \/ ExtractSection
    \/ CloseTmpDir
    \/ KernelCopy
    \/ OpenOutput
    \/ CopyRead
    \/ CopyInterrupted
    \/ CopyReadError
    \/ CopyEof
    \/ WritePadding
    \/ EnforceMinSize

Spec == Init /\ [][Next]_vars

\* The info block encoder alone, over kernel sizes across the u64 range.
InfoKernels ==
    { KernelOf(<<a, b, c, d>>, 3) :
        a \in {0, 1, 255, 256, 300, LIMB - 1},
        b \in {0, 1, 255, 256, LIMB - 1},
        c \in {0, 1},
        d \in {0, LIMB - 1} }

InitInfo ==
    InitWith(InfoKernels,
             { cfg \in Configs : ~cfg.update_bootloader /\ ~cfg.precompiled },
             { b \in BootloaderFiles : b.exists /\ b.valid })

NextInfo == BuildKernel \/ KernelInfo

SpecInfo == InitInfo /\ [][NextInfo]_vars

\* ------------------------------------------------------------- claims

Last(seq) == seq[Len(seq)]

InLog(stage) == \E i \in 1..Len(log) : log[i] = stage

\* The output path still holds what it held before the run.
ImageUntouched == image \in {NoFile, OldImage} /\ ~InLog("open_output")

read_u32(bytes) == <<bytes[1] + 256 * bytes[2], bytes[3] + 256 * bytes[4], 0, 0>>

Oversized == kernel_file.exists /\ ~U64Leq(kernel_file.size, U32_MAX)

\* The image before any minimum-size extension: section, info block,
\* kernel bytes, zeros up to the next multiple of 512 of the kernel size.
NaturalImage ==
    LET s == ToNat(kernel_file.size) IN
    bootloader \o kernel_info_block \o KernelBytes(kernel_file, 0, s)
        \o Zeros((512 - (s % 512)) % 512)

\* C1: for every kernel size s below 2^32 the info block has 512 bytes,
\* its first four bytes decode little-endian to s and the others are zero.
C1_InfoBlockEncodesSize ==
    (kernel_size # <<>> /\ U64Leq(kernel_size, U32_MAX)) =>
        /\ Len(kernel_info_block) = 512
        /\ read_u32(kernel_info_block) = kernel_size
        /\ \A j \in 5..512 : kernel_info_block[j] = 0

C1_Witness ==
    /\ kernel_size = U32_MAX
    /\ Len(kernel_info_block) = 512
    /\ kernel_info_block[1] = 255 /\ kernel_info_block[4] = 255

\* C2: with no minimum size, a finished image is the section, the info
\* block, the kernel bytes in order and the zero padding, nothing else.
C2_ImageLayout ==
    (pc = "done" /\ ~config.minimum_image_size.some) =>
        /\ Len(kernel_info_block) = 512
        /\ image.exists
        /\ image.data = NaturalImage

C2_Witness ==
    /\ pc = "done" /\ ~config.minimum_image_size.some
    /\ kernel_file.size = U64(300) /\ Len(bootloader) = 8
    /\ short_reads > 0
    /\ Len(image.data) = 1032

\* C3 as stated: after the padding the total length is a multiple of 512,
\* the smallest that is >= section_len + 512 + s.
C3_TotalIsMultipleOf512 ==
    pc = "min_size" =>
        LET total == Len(image.data)
            need == Len(bootloader) + 512 + ToNat(kernel_size)
        IN  total % 512 = 0 /\ total >= need /\ total - need < 512

\* C3 amended: after the padding the bytes after the section and the info
\* block are the smallest multiple of 512 that is >= s; the total is a
\* multiple of 512 (the smallest >= section_len + 512 + s) exactly when
\* the section length is one.
C3_KernelRegionIsPadded ==
    pc = "min_size" =>
        LET total == Len(image.data)
            s == ToNat(kernel_size)
            region == total - Len(bootloader) - 512
        IN  /\ region % 512 = 0 /\ region >= s /\ region - s < 512
            /\ (total % 512 = 0) <=> (Len(bootloader) % 512 = 0)

C3_Witness ==
    /\ pc = "min_size"
    /\ Len(bootloader) = 8 /\ kernel_size = U64(300)
    /\ Len(image.data) = 1032

\* C4: with a minimum size m the final length is m when m exceeds the
\* natural length n and n otherwise; the first n bytes are the natural
\* image and the bytes from n to m are zero.
C4_MinimumSize ==
    (pc = "done" /\ config.minimum_image_size.some) =>
        LET m == config.minimum_image_size.value
            n == Len(NaturalImage)
        IN  /\ Len(image.data) = (IF m > n THEN m ELSE n)
            /\ SubSeq(image.data, 1, n) = NaturalImage
            /\ \A j \in (n + 1)..Len(image.data) : image.data[j] = 0

C4_Witness ==
    /\ pc = "done" /\ config.minimum_image_size = [some |-> TRUE, value |-> 2048]
    /\ Len(NaturalImage) = 1032
    /\ Len(image.data) = 2048

\* C5: a kernel of 2^32 bytes or more makes the run panic at the info
\* block, before the output path is created, truncated or written.
C5_OversizedKernelAborts ==
    Oversized =>
        /\ ImageUntouched
        /\ kernel_elf = NoKernel /\ bootloader_elf = NoElf
        /\ kernel_info_block = <<>>
        /\ kernel_size # <<>> => (pc = "panic" /\ log = <<"build_kernel">>)

C5_Witness ==
    /\ pc = "panic" /\ kernel_size = <<0, 0, 1, 0>>
    /\ image = OldImage

\* C6: the temporary directory does not exist once the run has ended,
\* however it ended.
C6_TmpDirRemoved == pc \in Terminal => tmp_dir # "exists"

\* C7: a non-zero exit of the toolchain ends the process at once: the
\* bootloader is not read, no section is extracted, the image is untouched.
C7_ToolchainFailureExits ==
    (kernel_status = "failure" \/ bootloader_status = "failure") =>
        /\ pc = "exit"
        /\ bootloader_elf_bytes = NoElf /\ bootloader = <<>>
        /\ bootloader_elf = NoElf /\ kernel_elf = NoKernel
        /\ ImageUntouched
        /\ kernel_status = "failure" => log = <<>>
        /\ bootloader_status = "failure" => Last(log) = "download_bootloader"

C7_Witness ==
    /\ pc = "exit" /\ bootloader_status = "failure"
    /\ kernel_status = "success" /\ image = OldImage

\* The bootloader executable parses but has no .bootloader section, and
\* the section lookup has been made.
SectionMissing ==
    /\ bootloader_file.exists /\ bootloader_file.valid
    /\ ~find_section_by_name(bootloader_file, SECTION_NAME).found
    /\ InLog("archive_bootloader") /\ pc # "extract_section"

\* C8 as stated: when the section is missing build_bootloader fails and
\* no file of the output directory has been created or modified.
C8_MissingSectionWritesNothing ==
    SectionMissing =>
        /\ pc = "panic"
        /\ bootloader_elf = NoElf
        /\ kernel_elf = NoKernel
        /\ ImageUntouched

\* C8 amended: when the section is missing build_bootloader fails after
\* the diagnostic copy bootloader.elf has been written; the disk image and
\* kernel.elf are untouched.
C8_MissingSectionLeavesImage ==
    SectionMissing =>
        /\ pc = "panic"
        /\ Last(log) = "archive_bootloader"
        /\ bootloader = <<>>
        /\ bootloader_elf = bootloader_file
        /\ kernel_elf = NoKernel
        /\ ImageUntouched

C8_Witness ==
    /\ SectionMissing /\ pc = "panic"
    /\ bootloader_elf.exists /\ image = OldImage

\* C9: in the copy loop the output holds the section, the info block and
\* exactly the kernel bytes read so far, in order; an Interrupted read
\* leaves both where they were; the loop is left at the end of the file
\* only, or with the read error.
C9_CopyLoopCopiesKernel ==
    LET copied == bootloader \o kernel_info_block
                    \o KernelBytes(kernel_file, 0, kernel_pos)
    IN  /\ (pc = "copy" \/ (pc = "err" /\ Len(log) > 0 /\ Last(log) = "open_output")) =>
              /\ kernel_pos <= ToNat(kernel_file.size)
              /\ image.data = copied
        /\ pc = "padding" =>
              /\ kernel_pos = ToNat(kernel_file.size)
              /\ image.data = copied

C9_Witness ==
    /\ pc = "copy" /\ interrupts > 0 /\ short_reads > 0
    /\ kernel_pos > BUFFER_SIZE
    /\ kernel_pos < ToNat(kernel_file.size)

\* The stages of build_impl in their order.
StageOrder ==
    <<"build_kernel", "info_block", "remove_lock", "tmp_dir",
      "download_bootloader", "xargo_bootloader", "read_bootloader",
      "archive_bootloader", "extract_section", "close_tmp", "kernel_copy",
      "open_output", "copy", "padding", "min_size">>

ExpectedStages ==
    LET Runs(stage) ==
            /\ stage = "remove_lock" => config.update_bootloader
            /\ stage = "xargo_bootloader" => ~config.precompiled
    IN  SelectSeq(StageOrder, Runs)

\* C10: the stages complete in the fixed order, none skipped but the two
\* optional ones, and the image is created only when the kernel build,
\* the fetch, the bootloader build and the section extraction succeeded.
C10_StagesInOrder ==
    /\ Len(log) <= Len(ExpectedStages)
    /\ \A i \in 1..Len(log) : log[i] = ExpectedStages[i]
    /\ InLog("open_output") =>
          /\ kernel_status = "success"
          /\ fetch_status = "success"
          /\ ~config.precompiled => bootloader_status = "success"
          /\ find_section_by_name(bootloader_file, SECTION_NAME).found
          /\ bootloader = bootloader_file.sections[SECTION_NAME]

C10_Witness ==
    /\ pc = "done" /\ config.update_bootloader /\ ~config.precompiled
    /\ Len(log) = 15
====
